---------------------------- MODULE Spec2Model ----------------------------
(***************************************************************************)
(* Netra AI diagnostic inference service (backend/app/main.py).            *)
(*                                                                         *)
(* The model covers the model loader, the image acquirer, the              *)
(* preprocessor, the INT8 quantization codec, the dual-model orchestrator  *)
(* and the request boundary of the /api/ai-diagnoses endpoint.             *)
(*                                                                         *)
(* Numbers.  Floating point values are modelled as exact rationals         *)
(* <<n, d>> in lowest terms with d > 0; int8 values are the rationals      *)
(* <<q, 1>>.  A tensor is a record [dtype, shape, data] whose data lists   *)
(* the element values (for an image tensor: the channel values of a        *)
(* uniformly coloured picture).                                            *)
(***************************************************************************)
EXTENDS Integers, Sequences, FiniteSets, TLC

VARIABLES
    phase,           \* "boot" | "ready" | "aborted": outcome of startup_event
    disk,            \* the model files present on disk (environment)
    interpreter,     \* dr_interpreter / glaucoma_interpreter
    input_details,   \* dr_input_details / glaucoma_input_details
    output_details,  \* dr_output_details / glaucoma_output_details
    qparams,         \* *_input_scale, *_input_zero_point, *_output_scale, *_output_zero_point
    IMG_BUFFER,      \* the process-wide preprocessing buffer
    resp,            \* the response of the last handled request
    trace,           \* the last request's stages, locals and the exception it raised
    req,             \* the last request handled
    failed,          \* number of requests that ended in an error response (saturating)
    startup,         \* what startup_event did: the models warmed up and the error it raised
    arg,             \* input of a pure-function application
    ret,             \* result of a pure-function application
    tasks,           \* the diagnose coroutines in flight, one per connection slot
    loop             \* the slots whose coroutine holds the event loop: none or one

vars == <<phase, disk, interpreter, input_details, output_details, qparams,
          IMG_BUFFER, resp, trace, req, failed, startup, arg, ret, tasks, loop>>

None == "None"

(***************************************************************************)
(* Exact rational arithmetic.                                              *)
(***************************************************************************)
Abs(n) == IF n < 0 THEN -n ELSE n

RECURSIVE GCD(_, _)
GCD(a, b) == IF b = 0 THEN a ELSE GCD(b, a % b)

Rat(n, d) ==
    LET s == IF d < 0 THEN -1 ELSE 1
        g == GCD(Abs(n), Abs(d))
    IN  <<(s * n) \div g, (s * d) \div g>>

RInt(k) == <<k, 1>>
RAdd(x, y) == Rat(x[1] * y[2] + y[1] * x[2], x[2] * y[2])
RSub(x, y) == Rat(x[1] * y[2] - y[1] * x[2], x[2] * y[2])
RMul(x, y) == Rat(x[1] * y[1], x[2] * y[2])
RDiv(x, y) == Rat(x[1] * y[2], x[2] * y[1])
RLe(x, y) == x[1] * y[2] <= y[1] * x[2]
RLt(x, y) == x[1] * y[2] < y[1] * x[2]
RAbs(x) == <<Abs(x[1]), x[2]>>

One == RInt(1)
Zero == RInt(0)

\* np.round: round half to even, on the exact quotient n/d (d > 0).
NpRound(x) ==
    LET f == x[1] \div x[2]
        r == 2 * (x[1] - f * x[2])
    IN  IF r < x[2] THEN f
        ELSE IF r > x[2] THEN f + 1
        ELSE IF f % 2 = 0 THEN f ELSE f + 1

MapSeq(Op(_), s) == [i \in 1..Len(s) |-> Op(s[i])]

(***************************************************************************)
(* Quantization codec.                                                     *)
(***************************************************************************)
INT8_MIN == -128
INT8_MAX == 127

\* np.clip(v, -128, 127)
NpClip(v) == IF v < INT8_MIN THEN INT8_MIN ELSE IF v > INT8_MAX THEN INT8_MAX ELSE v

\* ndarray.astype(np.int8) of an integral value: keeps the low 8 bits.
AsInt8(v) == ((v - INT8_MIN) % 256) + INT8_MIN

IsIdentity(scale, zero_point) == scale = One /\ zero_point = 0

\* A plausible slip: the clip is dropped and the cast wraps around.
quantize_input_noclip(img_array, scale, zero_point) ==
    IF IsIdentity(scale, zero_point) THEN img_array
    ELSE [img_array EXCEPT
            !.dtype = "int8",
            !.data = MapSeq(LAMBDA f : RInt(AsInt8(NpRound(RDiv(f, scale)) + zero_point)),
                            img_array.data)]

\* A plausible slip: the identity short-circuit is missing.
quantize_input_nocut(img_array, scale, zero_point) ==
    [img_array EXCEPT
        !.dtype = "int8",
        !.data = MapSeq(LAMBDA f : RInt(AsInt8(NpClip(NpRound(RDiv(f, scale)) + zero_point))),
                        img_array.data)]

\* A plausible slip: truncation toward minus infinity instead of rounding.
quantize_input_floor(img_array, scale, zero_point) ==
    IF IsIdentity(scale, zero_point) THEN img_array
    ELSE [img_array EXCEPT
            !.dtype = "int8",
            !.data = MapSeq(LAMBDA f : LET q == RDiv(f, scale)
                                       IN  RInt(AsInt8(NpClip((q[1] \div q[2]) + zero_point))),
                            img_array.data)]

quantize_input(img_array, scale, zero_point) ==
    IF IsIdentity(scale, zero_point) THEN img_array
    ELSE [img_array EXCEPT
            !.dtype = "int8",
            !.data = MapSeq(LAMBDA f : RInt(AsInt8(NpClip(NpRound(RDiv(f, scale)) + zero_point))),
                            img_array.data)]

dequantize_output(quantized_output, scale, zero_point) ==
    IF IsIdentity(scale, zero_point) THEN quantized_output
    ELSE [quantized_output EXCEPT
            !.dtype = "float32",
            !.data = MapSeq(LAMBDA q : RMul(scale, RSub(q, RInt(zero_point))),
                            quantized_output.data)]


(***************************************************************************)
(* Exceptions and results of a call that may raise.                        *)
(***************************************************************************)
NoExc == [type |-> "none", msg |-> "none"]
Exc(type, msg) == [type |-> type, msg |-> msg]
Ok(v) == [ok |-> TRUE, val |-> v, exc |-> NoExc]
Raise(type, msg) == [ok |-> FALSE, val |-> None, exc |-> Exc(type, msg)]

(***************************************************************************)
(* Preprocessor.  An image is [mode, size, px]: a PIL mode, <<width,       *)
(* height>> and the band values (0..255) of its (uniform) colour.          *)
(***************************************************************************)
TARGET_SIZE == <<224, 224>>
MIN_SIDE == 50
PIXEL_MAX == 255

Bands(mode) ==
    CASE mode = "L" -> 1
      [] mode = "P" -> 1
      [] mode = "RGB" -> 3
      [] mode = "RGBA" -> 4
      [] mode = "CMYK" -> 4

\* A plausible slip: "and" instead of "or" in the size test.
validate_image_and(image) ==
    IF image.mode \notin {"RGB", "RGBA", "L"} THEN FALSE
    ELSE IF image.size[1] < MIN_SIDE /\ image.size[2] < MIN_SIDE THEN FALSE
    ELSE TRUE

validate_image(image) ==
    IF image.mode \notin {"RGB", "RGBA", "L"} THEN FALSE
    ELSE IF image.size[1] < MIN_SIDE \/ image.size[2] < MIN_SIDE THEN FALSE
    ELSE TRUE

\* Image.convert('RGB') for the modes validate_image lets through.
ConvertRGB(image) ==
    [image EXCEPT
        !.mode = "RGB",
        !.px = CASE image.mode = "L" -> <<image.px[1], image.px[1], image.px[1]>>
                 [] image.mode = "RGBA" -> <<image.px[1], image.px[2], image.px[3]>>
                 [] OTHER -> image.px]

\* Image.resize(target_size, Image.LANCZOS): a uniform picture keeps its colour.
Resize(image, target_size) == [image EXCEPT !.size = target_size]

\* np.array(image, dtype=np.float32) / 255.0: shape (height, width, bands).
ToArray(image) ==
    [dtype |-> "float32",
     shape |-> <<image.size[2], image.size[1], Len(image.px)>>,
     data  |-> MapSeq(LAMBDA v : Rat(v, PIXEL_MAX), image.px)]

\* np.copyto(IMG_BUFFER[0], img_data); return IMG_BUFFER.copy().  The result
\* also carries buf, the content of IMG_BUFFER after the call.
CopyThroughBuffer(img_data) ==
    IF img_data.shape # <<IMG_BUFFER.shape[2], IMG_BUFFER.shape[3], IMG_BUFFER.shape[4]>>
    THEN [ok |-> FALSE, val |-> None, buf |-> IMG_BUFFER,
          exc |-> Exc("ValueError", "could not broadcast input array")]
    ELSE [ok |-> TRUE, val |-> [IMG_BUFFER EXCEPT !.data = img_data.data],
          buf |-> [IMG_BUFFER EXCEPT !.data = img_data.data], exc |-> NoExc]

preprocess_image_quantized(image, target_size) ==
    IF ~validate_image(image)
    THEN [ok |-> FALSE, val |-> None, buf |-> IMG_BUFFER,
          exc |-> Exc("ValueError", "Invalid image format or size")]
    ELSE CopyThroughBuffer(
            ToArray(Resize(IF image.mode # "RGB" THEN ConvertRGB(image) ELSE image,
                           target_size)))

ZeroBuffer == [dtype |-> "float32", shape |-> <<1, 224, 224, 3>>, data |-> <<Zero, Zero, Zero>>]

(***************************************************************************)
(* Inputs of the pure-function applications.                               *)
(***************************************************************************)
MaxNum == 4
MaxDen == 3

Values == {Rat(n, d) : n \in (0 - MaxNum)..MaxNum, d \in 1..MaxDen}
ProbeValues == {Rat(1, 2), RInt(-3)}
Int8Values == {RInt(q) : q \in {INT8_MIN, -1, 0, 1, 77, INT8_MAX}}
Scales == {One, Rat(1, 2), Rat(1, 255), Rat(1, 256), RInt(2), Rat(3, 4)}
ZeroPoints == {INT8_MIN, -1, 0, 3, INT8_MAX}

TensorOf(dtype, data) == [dtype |-> dtype, shape |-> <<1, Len(data)>>, data |-> data]

CodecTensors ==
    {TensorOf(dt, <<x>>) : dt \in {"float32", "float64"}, x \in Values}
    \cup {TensorOf("float32", <<x, y>>) : x \in Values, y \in ProbeValues}
    \cup {TensorOf("int8", <<q>>) : q \in Int8Values}

Modes == {"RGB", "RGBA", "L", "P", "CMYK"}
Sides == {1, 49, 50, 224, 300}
Levels == {0, 128, 255}
Images ==
    {[mode |-> m, size |-> <<w, h>>, px |-> [i \in 1..Bands(m) |-> IF i = 2 THEN v ELSE 255 - v]] :
        m \in Modes, w \in Sides, h \in Sides, v \in Levels}

CodecArgs ==
    {[kind |-> "codec", tensor |-> t, scale |-> s, zero_point |-> z] :
        t \in CodecTensors, s \in Scales, z \in ZeroPoints}
ImageArgs == {[kind |-> "image", image |-> im] : im \in Images}

NoRet == [op |-> "none"]

(***************************************************************************)
(* Model files.  quantized_models.py writes the *_int8.tflite files (int8  *)
(* input and output, one scale and zero point per tensor);                 *)
(* convert_to_tflite.py writes the plain files (float32, no quantization). *)
(* The tensor details of a float32 tensor carry either no                  *)
(* 'quantization_parameters' entry or one with empty arrays, depending on  *)
(* the runtime.  A file may also be missing, or may open and then fail in  *)
(* allocate_tensors().                                                     *)
(***************************************************************************)
Tasks == {"dr", "glaucoma"}

Missing == [kind |-> "missing"]

NoQuant == [present |-> FALSE, scales |-> <<>>, zero_points |-> <<>>]
EmptyQuant == [present |-> TRUE, scales |-> <<>>, zero_points |-> <<>>]
Quant(scale, zero_point) == [present |-> TRUE, scales |-> <<scale>>, zero_points |-> <<zero_point>>]

Int8Model(in_qp, out_qp, out_len, alloc_ok) ==
    [kind |-> "model", variant |-> "int8", alloc_ok |-> alloc_ok,
     in_dtype |-> "int8", out_dtype |-> "int8",
     in_qp |-> in_qp, out_qp |-> out_qp,
     out_len |-> out_len]

FloatModel(qp, out_len, alloc_ok) ==
    [kind |-> "model", variant |-> "regular", alloc_ok |-> alloc_ok,
     in_dtype |-> "float32", out_dtype |-> "float32",
     in_qp |-> qp, out_qp |-> qp, out_len |-> out_len]

\* Number of classes of each task.
Classes(t) == IF t = "dr" THEN 5 ELSE 2

\* The calibrated parameters of a task's int8 file: every tensor has its own
\* pair, and the two models differ.
InputQuant(t) ==
    IF t = "dr" THEN Quant(Rat(1, 255), INT8_MIN) ELSE Quant(Rat(2, 255), -64)
OutputQuant(t) ==
    IF t = "dr" THEN Quant(Rat(1, 256), INT8_MIN) ELSE Quant(Rat(1, 255), INT8_MIN)

\* The files of one task that are tried: [the int8 file, the plain file].
\* An int8 file may also come with tensor details that list no
\* 'quantization_parameters' (DR) or with the pair (1.0, 0) (Glaucoma).
TaskFiles(t) ==
    {[int8 |-> Int8Model(InputQuant(t), OutputQuant(t), IF t = "dr" THEN Classes(t) ELSE 1, TRUE),
      regular |-> Missing],
     [int8 |-> Int8Model(InputQuant(t), OutputQuant(t), Classes(t), TRUE),
      regular |-> FloatModel(EmptyQuant, Classes(t), TRUE)],
     [int8 |-> IF t = "dr"
               THEN Int8Model(NoQuant, NoQuant, Classes(t), TRUE)
               ELSE Int8Model(Quant(One, 0), OutputQuant(t), Classes(t), TRUE),
      regular |-> Missing],
     [int8 |-> Missing, regular |-> FloatModel(NoQuant, Classes(t), TRUE)],
     [int8 |-> Missing, regular |-> FloatModel(NoQuant, 1, TRUE)],
     [int8 |-> Missing, regular |-> FloatModel(EmptyQuant, Classes(t), TRUE)],
     [int8 |-> Missing, regular |-> Missing],
     IF t = "dr"
     THEN [int8 |-> Int8Model(InputQuant(t), OutputQuant(t), Classes(t), FALSE),
           regular |-> FloatModel(NoQuant, Classes(t), TRUE)]
     ELSE [int8 |-> Missing, regular |-> FloatModel(NoQuant, Classes(t), FALSE)]}

Disks == {[t \in Tasks |-> IF t = "dr" THEN d ELSE g] : d \in TaskFiles("dr"), g \in TaskFiles("glaucoma")}

(***************************************************************************)
(* Model registry / loader.                                                *)
(***************************************************************************)
NoInterpreter == [kind |-> "none"]
NoDetails == [dtype |-> None, quantization_parameters |-> NoQuant]
NoParams == [input_scale |-> None, input_zero_point |-> None,
             output_scale |-> None, output_zero_point |-> None]

\* tf.lite.Interpreter(model_path=...): raises when the file cannot be opened.
Interpreter(file) ==
    IF file.kind = "model" THEN Ok(file) ELSE Raise("ValueError", "Could not open model file")

\* The try / bare except around the two constructor calls.
LoadInterpreter(files) ==
    IF files.int8.kind = "model" THEN Interpreter(files.int8) ELSE Interpreter(files.regular)

get_input_details(m) == [dtype |-> m.in_dtype, quantization_parameters |-> m.in_qp]
get_output_details(m) == [dtype |-> m.out_dtype, quantization_parameters |-> m.out_qp]

\* details.get('quantization_parameters', {}).get(key, [default])[0]
QuantParam(details, key, default) ==
    IF ~details.quantization_parameters.present THEN Ok(default)
    ELSE IF Len(details.quantization_parameters[key]) = 0
    THEN Raise("IndexError", "index 0 is out of bounds for axis 0 with size 0")
    ELSE Ok(details.quantization_parameters[key][1])

NotLoaded == [interpreter |-> NoInterpreter, input_details |-> NoDetails,
              output_details |-> NoDetails, qparams |-> NoParams, exc |-> NoExc]

\* The four assignments of the quantization parameters, in order; the
\* first lookup that raises leaves the later globals unset.
ReadParams(g, is, iz, os, oz) ==
    IF ~is.ok THEN [g EXCEPT !.exc = is.exc]
    ELSE IF ~iz.ok THEN [g EXCEPT !.qparams.input_scale = is.val, !.exc = iz.exc]
    ELSE IF ~os.ok THEN [g EXCEPT !.qparams.input_scale = is.val,
                                  !.qparams.input_zero_point = iz.val, !.exc = os.exc]
    ELSE IF ~oz.ok THEN [g EXCEPT !.qparams.input_scale = is.val,
                                  !.qparams.input_zero_point = iz.val,
                                  !.qparams.output_scale = os.val, !.exc = oz.exc]
    ELSE [g EXCEPT !.qparams = [input_scale |-> is.val, input_zero_point |-> iz.val,
                                output_scale |-> os.val, output_zero_point |-> oz.val]]

\* allocate_tensors(), get_input_details(), get_output_details() and the
\* parameters, on the interpreter that was constructed (if any).
Allocate(made) ==
    IF ~made.ok THEN [NotLoaded EXCEPT !.exc = made.exc]
    ELSE IF ~made.val.alloc_ok
    THEN [NotLoaded EXCEPT !.interpreter = made.val,
                           !.exc = Exc("RuntimeError", "allocate_tensors failed")]
    ELSE ReadParams([NotLoaded EXCEPT !.interpreter = made.val,
                                      !.input_details = get_input_details(made.val),
                                      !.output_details = get_output_details(made.val)],
                    QuantParam(get_input_details(made.val), "scales", One),
                    QuantParam(get_input_details(made.val), "zero_points", 0),
                    QuantParam(get_output_details(made.val), "scales", One),
                    QuantParam(get_output_details(made.val), "zero_points", 0))

\* One task's half of load_models: the globals it leaves and the exception, if any.
LoadTask(files) == Allocate(LoadInterpreter(files))

LoadResult(dr, gl) ==
    [globals |-> [t \in Tasks |-> IF t = "dr" THEN dr ELSE gl],
     exc     |-> IF dr.exc # NoExc THEN dr.exc ELSE gl.exc,
     at      |-> IF dr.exc # NoExc THEN "load_dr"
                 ELSE IF gl.exc # NoExc THEN "load_glaucoma" ELSE "none"]

\* The Glaucoma half runs only when the DR half raised nothing.
LoadGlaucoma(d, dr) ==
    LoadResult(dr, IF dr.exc = NoExc THEN LoadTask(d["glaucoma"]) ELSE NotLoaded)

\* load_models: DR first, then Glaucoma; the first exception is re-raised.
load_models(d) == LoadGlaucoma(d, LoadTask(d["dr"]))

(***************************************************************************)
(* Inference orchestrator.  A run is what the runtime does on one          *)
(* invoke(): it fails, or it leaves the raw output values.                 *)
(***************************************************************************)
FailedRun == [fail |-> TRUE, data |-> <<>>]
GoodRun(data) == [fail |-> FALSE, data |-> data]

RawOutputs(m) ==
    IF m.out_dtype = "int8"
    THEN CASE m.out_len = 1 -> {<<RInt(77)>>, <<RInt(-100)>>}
           [] m.out_len = 2 -> {<<RInt(-100), RInt(99)>>}
           [] OTHER -> {<<RInt(-128), RInt(-100), RInt(40), RInt(-90), RInt(-106)>>}
    ELSE CASE m.out_len = 1 -> {<<Rat(4, 5)>>, <<Rat(1, 5)>>}
           [] m.out_len = 2 -> {<<Rat(2, 3), Rat(1, 3)>>}
           [] OTHER -> {<<Rat(1, 10), Rat(1, 10), Rat(3, 5), Rat(1, 10), Rat(1, 10)>>}

Runs(m) == {FailedRun} \cup {GoodRun(d) : d \in RawOutputs(m)}

\* ndarray.astype(np.float32)
AsFloat32(t) == [t EXCEPT !.dtype = "float32"]

\* interpreter.get_tensor(...) and the handling of a quantized output.
ReadOutput(out_details, raw, output_scale, output_zero_point) ==
    IF out_details.dtype = "int8"
    THEN dequantize_output(raw, output_scale, output_zero_point)
    ELSE raw

\* The call raised; fed is the tensor it handed to set_tensor.
Refused(fed, type, msg) ==
    [ok |-> FALSE, val |-> None, exc |-> Exc(type, msg), fed |-> fed]

\* interpreter.get_tensor(output_details[0]['index'])
get_tensor(out_details, run) ==
    [dtype |-> out_details.dtype, shape |-> <<1, Len(run.data)>>, data |-> run.data]

\* set_tensor (which refuses a value of another element type), invoke,
\* get_tensor.  The value is [predictions, raw, fed].
SetInvokeGet(in_details, out_details, fed, output_scale, output_zero_point, run) ==
    IF fed.dtype # in_details.dtype
    THEN Refused(fed, "ValueError", "Cannot set tensor: got value of another type")
    ELSE IF run.fail THEN Refused(fed, "RuntimeError", "failed to invoke the interpreter")
    ELSE [ok |-> TRUE, exc |-> NoExc, fed |-> fed,
          val |-> [predictions |-> ReadOutput(out_details, get_tensor(out_details, run),
                                              output_scale, output_zero_point),
                   raw |-> get_tensor(out_details, run),
                   fed |-> fed]]

\* The value is [predictions, raw, fed]: the result, the model's raw output
\* and the tensor handed to set_tensor (fed, also when the call raises).
predict_with_tflite_quantized(interp, in_details, out_details, img_array, input_scale, input_zero_point, output_scale, output_zero_point, run) ==
    SetInvokeGet(in_details, out_details,
                 IF in_details.dtype = "int8"
                 THEN quantize_input(img_array, input_scale, input_zero_point)
                 ELSE AsFloat32(img_array),
                 output_scale, output_zero_point, run)

\* A plausible slip: the input and the output parameters change places.
PredictWith_swapped(g, img_array, run) ==
    predict_with_tflite_quantized(
        g.interpreter, g.input_details, g.output_details, img_array,
        g.qparams.output_scale, g.qparams.output_zero_point,
        g.qparams.input_scale, g.qparams.input_zero_point, run)

\* The call as diagnose and startup_event make it, on one task's globals.
PredictWith(g, img_array, run) ==
    predict_with_tflite_quantized(
        g.interpreter, g.input_details, g.output_details, img_array,
        g.qparams.input_scale, g.qparams.input_zero_point,
        g.qparams.output_scale, g.qparams.output_zero_point, run)

RunsOf(g) == IF g.interpreter.kind = "model" THEN Runs(g.interpreter) ELSE {FailedRun}

\* The runs of a model on the all-zero warmup tensor: it fails, or it leaves
\* the one output the model has for that input.
DummyRunsOf(g) ==
    IF g.interpreter.kind = "model"
    THEN {FailedRun, GoodRun(CHOOSE d \in RawOutputs(g.interpreter) : TRUE)}
    ELSE {FailedRun}

(***************************************************************************)
(* Image acquirer.                                                         *)
(***************************************************************************)
MAX_IMAGE_SIZE == 10 * 1024 * 1024

NoFile == [present |-> FALSE]
Truthy(img_url) == img_url \notin {None, ""}

\* Image.open: raises on bytes that are no image.
ImageOpen(content) ==
    IF content.decodable THEN Ok(content.image)
    ELSE Raise("UnidentifiedImageError", "cannot identify image file")

\* The result of a call, with the stages gone through.
Staged(result, stages) ==
    [ok |-> result.ok, val |-> result.val, exc |-> result.exc, stages |-> stages]

load_image_from_source(file, img_url, fetch) ==
    IF file.present
    THEN IF file.has_size /\ file.size > MAX_IMAGE_SIZE
         THEN Staged(Raise("ValueError", "File too large"), <<"acquire_file">>)
         ELSE Staged(ImageOpen(file.content), <<"acquire_file", "decode">>)
    ELSE IF ~fetch.ok
         THEN Staged(Raise("URLError", "urlopen error"), <<"acquire_url">>)
         ELSE IF fetch.len > MAX_IMAGE_SIZE
              THEN Staged(Raise("ValueError", "Image too large"), <<"acquire_url">>)
              ELSE Staged(ImageOpen(fetch.content), <<"acquire_url", "decode">>)

(***************************************************************************)
(* Response assembler and the /api/ai-diagnoses handler.                   *)
(***************************************************************************)
DR_CLASSES == <<"No DR", "Mild NPDR", "Moderate NPDR", "Severe NPDR", "Proliferative DR">>
GLAUCOMA_CLASSES == <<"Normal", "Glaucoma">>

DR_NOTES ==
    <<"No diabetic retinopathy detected. Continue routine screening.",
      "Mild changes detected. Regular follow-up recommended.",
      "Signs of moderate non-proliferative DR. Monitor and consider treatment.",
      "Severe NPDR detected. Closer monitoring and treatment required.",
      "Proliferative DR detected. Immediate treatment is strongly advised.">>

GLAUCOMA_NOTES ==
    <<"No significant signs of glaucoma.",
      "Increased likelihood of glaucoma. Recommend further IOP measurement and visual field testing.">>

Range(s) == {s[i] : i \in 1..Len(s)}

\* np.max and np.argmax (the first maximum, counted from 0) of a non-empty list.
NpMax(s) == CHOOSE x \in Range(s) : \A y \in Range(s) : RLe(y, x)
NpArgMax(s) == (CHOOSE i \in 1..Len(s) : s[i] = NpMax(s) /\ \A j \in 1..(i - 1) : s[j] # NpMax(s)) - 1

\* round(x, 3)
Round3(x) == Rat(NpRound(RMul(x, RInt(1000))), 1000)

\* One task's entry of response_data; indexing past a list's end raises.
PredictionResult(classes, notes, probs, index, confidence) ==
    IF index >= Len(classes) \/ Len(probs) < Len(classes)
    THEN Raise("IndexError", "list index out of range")
    ELSE Ok([prediction     |-> classes[index + 1],
             confidence     |-> Round3(confidence),
             probabilities  |-> [i \in 1..Len(classes) |-> Round3(probs[i])],
             severity_level |-> index,
             doctor_note    |-> notes[index + 1]])

\* A plausible slip: the two classes are swapped.
BinaryProbs_swapped(preds) ==
    IF preds.shape[2] = 1
    THEN <<preds.data[1], RSub(One, preds.data[1])>>
    ELSE preds.data

\* "Handle binary classification": glaucoma_probs from glaucoma_preds.
BinaryProbs(preds) ==
    IF preds.shape[2] = 1
    THEN <<RSub(One, preds.data[1]), preds.data[1]>>
    ELSE preds.data

NoTensor == [dtype |-> None, shape |-> <<>>, data |-> <<>>]

\* The handler's local variables, as far as it got.
NoLocals ==
    [img_array |-> NoTensor, fed |-> [t \in Tasks |-> NoTensor],
     raw |-> [t \in Tasks |-> NoTensor],
     dr_preds |-> NoTensor, glaucoma_preds |-> NoTensor,
     dr_probs |-> <<>>, glaucoma_probs |-> <<>>]

Globals(t) ==
    [interpreter |-> interpreter[t], input_details |-> input_details[t],
     output_details |-> output_details[t], qparams |-> qparams[t]]

Failed(exc, stages, locals, buf) ==
    [ok |-> FALSE, val |-> None, exc |-> exc, stages |-> stages, locals |-> locals, buf |-> buf]

ResponseData(file, request_id, drr, glr) ==
    [diabetic_retinopathy |-> drr,
     glaucoma |-> glr,
     meta |-> [request_id |-> request_id,
               image_size |-> TARGET_SIZE,
               model_version |-> "tflite_v1_int8_optimized",
               input_source |-> IF file.present THEN "file" ELSE "url",
               optimizations_applied |->
                  <<"multi_threading", "memory_optimization", "int8_quantization">>]]

\* "Build response": indexing the class lists and the probabilities may raise.
BuildResponse(file, request_id, stages, locals, buf, drr, glr) ==
    IF ~drr.ok THEN Failed(drr.exc, stages, locals, buf)
    ELSE IF ~glr.ok THEN Failed(glr.exc, stages, locals, buf)
    ELSE [ok |-> TRUE, exc |-> NoExc, stages |-> stages, locals |-> locals, buf |-> buf,
          val |-> ResponseData(file, request_id, drr.val, glr.val)]

\* arg-max and confidence of both tasks, then the response.
PostProcess(file, request_id, stages, locals, buf) ==
    BuildResponse(file, request_id, stages, locals, buf,
        PredictionResult(DR_CLASSES, DR_NOTES, locals.dr_probs,
                         NpArgMax(locals.dr_probs), NpMax(locals.dr_probs)),
        PredictionResult(GLAUCOMA_CLASSES, GLAUCOMA_NOTES, locals.glaucoma_probs,
                         NpArgMax(locals.glaucoma_probs), NpMax(locals.glaucoma_probs)))

\* After the Glaucoma prediction.
AfterGlaucoma(file, request_id, stages, locals, buf, gl) ==
    IF ~gl.ok THEN Failed(gl.exc, stages, [locals EXCEPT !.fed["glaucoma"] = gl.fed], buf)
    ELSE PostProcess(file, request_id, stages,
                     [locals EXCEPT !.fed["glaucoma"] = gl.val.fed,
                                    !.raw["glaucoma"] = gl.val.raw,
                                    !.glaucoma_preds = gl.val.predictions,
                                    !.glaucoma_probs = BinaryProbs(gl.val.predictions)],
                     buf)

\* After the DR prediction: dr_probs, then the Glaucoma prediction.
AfterDR(file, request_id, stages, locals, buf, dr, gl_run) ==
    IF ~dr.ok THEN Failed(dr.exc, stages, [locals EXCEPT !.fed["dr"] = dr.fed], buf)
    ELSE AfterGlaucoma(file, request_id, Append(stages, "invoke_glaucoma"),
                       [locals EXCEPT !.fed["dr"] = dr.val.fed,
                                      !.raw["dr"] = dr.val.raw,
                                      !.dr_preds = dr.val.predictions,
                                      !.dr_probs = dr.val.predictions.data],
                       buf,
                       PredictWith(Globals("glaucoma"), locals.img_array, gl_run))

\* After preprocessing: the DR prediction.
AfterPreprocess(file, request_id, stages, pre, dr_run, gl_run) ==
    IF ~pre.ok THEN Failed(pre.exc, stages, NoLocals, pre.buf)
    ELSE AfterDR(file, request_id, Append(stages, "invoke_dr"),
                 [NoLocals EXCEPT !.img_array = pre.val], pre.buf,
                 PredictWith(Globals("dr"), pre.val, dr_run), gl_run)

\* After load_image_from_source: preprocessing.
AfterLoad(file, request_id, acq, dr_run, gl_run) ==
    IF ~acq.ok THEN Failed(acq.exc, acq.stages, NoLocals, IMG_BUFFER)
    ELSE AfterPreprocess(file, request_id, Append(acq.stages, "preprocess"),
                         preprocess_image_quantized(acq.val, TARGET_SIZE), dr_run, gl_run)

\* The body of the try block of diagnose.
TryBody(file, img_url, request_id, fetch, dr_run, gl_run) ==
    AfterLoad(file, request_id, load_image_from_source(file, img_url, fetch), dr_run, gl_run)

JSONResponse(content, status_code) ==
    [endpoint |-> "diagnose", status |-> status_code, body |-> content]

\* A plausible slip: the "both given" test is missing.
InputValidation_nomutex(file, img_url) ==
    IF ~file.present /\ ~Truthy(img_url)
    THEN [reject |-> TRUE, error |-> "Either file or img_url must be provided"]
    ELSE [reject |-> FALSE, error |-> ""]

\* "Input validation": exactly one of file and img_url.
InputValidation(file, img_url) ==
    IF ~file.present /\ ~Truthy(img_url)
    THEN [reject |-> TRUE, error |-> "Either file or img_url must be provided"]
    ELSE IF file.present /\ Truthy(img_url)
    THEN [reject |-> TRUE, error |-> "Provide either file or img_url, not both"]
    ELSE [reject |-> FALSE, error |-> ""]

\* A plausible slip: the error body lacks the correlation id.
ErrorResponse_noid(exc, request_id) ==
    JSONResponse([error |-> exc.msg], 500)

\* "except Exception as e": the error body; error stands for
\* "Error processing image: " followed by str(e).
ErrorResponse(exc, request_id) ==
    JSONResponse([error |-> exc.msg, request_id |-> request_id], 500)

NoTrace == [stages |-> <<>>, raised |-> NoExc, locals |-> NoLocals]

\* The end of the try block: the 200 response, or the except clause.
Boundary(r, request_id) ==
    [response |-> IF r.ok
                  THEN [endpoint |-> "diagnose", status |-> 200, body |-> r.val]
                  ELSE ErrorResponse(r.exc, request_id),
     trace |-> [stages |-> r.stages, raised |-> r.exc, locals |-> r.locals],
     buf |-> r.buf]

\* The handler: its response, what it went through, and IMG_BUFFER afterwards.
diagnose(file, img_url, request_id, fetch, dr_run, gl_run) ==
    IF InputValidation(file, img_url).reject
    THEN [response |-> JSONResponse([error |-> InputValidation(file, img_url).error], 400),
          trace |-> NoTrace, buf |-> IMG_BUFFER]
    ELSE Boundary(TryBody(file, img_url, request_id, fetch, dr_run, gl_run), request_id)

(***************************************************************************)
(* Startup and health.                                                     *)
(***************************************************************************)
\* A warmup prediction that was not made.
NotRun == [fed |-> NoTensor, raw |-> NoTensor, predictions |-> NoTensor]

\* What a warmup prediction handed to the model and got from it.
Ran(r) ==
    [fed |-> r.fed,
     raw |-> IF r.ok THEN r.val.raw ELSE NoTensor,
     predictions |-> IF r.ok THEN r.val.predictions ELSE NoTensor]

NotStarted ==
    [warmed |-> {}, exc |-> NoExc, at |-> "none", runs |-> [t \in Tasks |-> NotRun]]

\* A plausible slip: the handler logs the error and does not re-raise it.
StartupPhase_swallow(exc) == "ready"

\* startup_event's "except Exception ... raise": an error aborts startup.
StartupPhase(exc) == IF exc = NoExc THEN "ready" ELSE "aborted"

\* The warmup tensor: np.zeros((1, 224, 224, 3), dtype=np.float32).
Dummy ==
    [dtype |-> "float32", shape |-> <<1, TARGET_SIZE[1], TARGET_SIZE[2], 3>>,
     data |-> <<Zero, Zero, Zero>>]

WarmupRuns(dr, gl) == [t \in Tasks |-> IF t = "dr" THEN dr ELSE gl]

WarmupResult(dr, gl) ==
    IF ~dr.ok
    THEN [warmed |-> {}, exc |-> dr.exc, at |-> "warmup_dr",
          runs |-> WarmupRuns(Ran(dr), NotRun)]
    ELSE IF ~gl.ok
    THEN [warmed |-> {"dr"}, exc |-> gl.exc, at |-> "warmup_glaucoma",
          runs |-> WarmupRuns(Ran(dr), Ran(gl))]
    ELSE [warmed |-> Tasks, exc |-> NoExc, at |-> "none",
          runs |-> WarmupRuns(Ran(dr), Ran(gl))]

\* The two warmup predictions, when load_models raised nothing.
Warmup(loaded, dr_run, gl_run) ==
    [globals |-> loaded.globals,
     startup |-> IF loaded.exc # NoExc
                 THEN [NotStarted EXCEPT !.exc = loaded.exc, !.at = loaded.at]
                 ELSE WarmupResult(PredictWith(loaded.globals["dr"], Dummy, dr_run),
                                   PredictWith(loaded.globals["glaucoma"], Dummy, gl_run))]

\* startup_event: load_models, then one dummy inference through each model.
startup_event(d, dr_run, gl_run) == Warmup(load_models(d), dr_run, gl_run)

\* GET /health
health_check ==
    [endpoint |-> "health", status |-> 200,
     body |-> [status |-> "healthy",
               models_loaded |-> interpreter["dr"] # NoInterpreter
                                 /\ interpreter["glaucoma"] # NoInterpreter,
               optimizations |->
                  [image_size |-> TARGET_SIZE,
                   multi_threading |-> "enabled",
                   memory_optimization |-> "enabled",
                   int8_quantization |->
                      [t \in Tasks |-> IF input_details[t] # NoDetails
                                       THEN input_details[t].dtype = "int8"
                                       ELSE FALSE]]]]

(***************************************************************************)
(* Requests.                                                               *)
(***************************************************************************)
MaxFailed == 2

MiB == 1024 * 1024

GoodImage == [mode |-> "RGB", size |-> <<300, 300>>, px |-> <<255, 128, 0>>]
GrayImage == [mode |-> "L", size |-> <<50, 224>>, px |-> <<128>>]
ServedImages ==
    {GoodImage, GrayImage,
     [mode |-> "P", size |-> <<300, 300>>, px |-> <<7>>],
     [mode |-> "RGB", size |-> <<300, 49>>, px |-> <<1, 2, 3>>]}

Undecodable == [decodable |-> FALSE, image |-> GoodImage]
Decodable(im) == [decodable |-> TRUE, image |-> im]
Contents == {Undecodable} \cup {Decodable(im) : im \in ServedImages}

Upload(has_size, size, content) ==
    [present |-> TRUE, has_size |-> has_size, size |-> size, content |-> content]

\* Uploads: small ones of every content, some at and over the ceiling, and
\* one from a framework whose UploadFile has no size attribute.
UploadFiles ==
    {Upload(TRUE, 4096, c) : c \in Contents}
    \cup {Upload(TRUE, MAX_IMAGE_SIZE, Decodable(GoodImage)),
          Upload(TRUE, MAX_IMAGE_SIZE + 1, Decodable(GoodImage)),
          Upload(TRUE, 11 * MiB, Decodable(GoodImage)),
          Upload(TRUE, 11 * MiB, Undecodable),
          Upload(FALSE, 11 * MiB, Decodable(GoodImage))}

Files == {NoFile} \cup UploadFiles
Urls == {None, "", "https://example.org/fundus.jpg"}

FetchFailed == [ok |-> FALSE, len |-> 0, content |-> Undecodable]
Fetches ==
    {FetchFailed}
    \cup {[ok |-> TRUE, len |-> 4096, content |-> c] :
            c \in {Undecodable, Decodable(GrayImage)}}
    \cup {[ok |-> TRUE, len |-> MAX_IMAGE_SIZE + 1, content |-> Decodable(GoodImage)]}

RequestIds == {"1b9d6bcd"}

\* The environment's choices a request consults: the fetch only for a URL
\* request, a model's run only when the handler gets to invoke it.
FetchesFor(file, img_url) ==
    IF ~file.present /\ Truthy(img_url) THEN Fetches ELSE {FetchFailed}

Decodes(acq) == acq.ok /\ validate_image(acq.val)

ReachesInference(file, img_url, fetch) ==
    /\ ~InputValidation(file, img_url).reject
    /\ Decodes(load_image_from_source(file, img_url, fetch))

DrRunsFor(file, img_url, fetch) ==
    IF ReachesInference(file, img_url, fetch) THEN RunsOf(Globals("dr")) ELSE {FailedRun}

GlaucomaRunsFor(file, img_url, fetch, dr_run) ==
    IF ReachesInference(file, img_url, fetch) /\ ~dr_run.fail
    THEN RunsOf(Globals("glaucoma")) ELSE {FailedRun}

NoRequest == [endpoint |-> "none"]
NoResponse == [endpoint |-> "none", status |-> 0, body |-> [status |-> "none"]]
NoArg == [kind |-> "none"]

\* Connections the server holds at once, each with one diagnose coroutine.
MaxInflight == 2
Slots == 1..MaxInflight

Idle ==
    [pc |-> "idle", file |-> NoFile, stages |-> <<>>, locals |-> NoLocals,
     resp |-> NoResponse]

(***************************************************************************)
(* The service.                                                            *)
(***************************************************************************)
Init ==
    /\ phase = "boot"
    /\ disk \in Disks
    /\ interpreter = [t \in Tasks |-> NoInterpreter]
    /\ input_details = [t \in Tasks |-> NoDetails]
    /\ output_details = [t \in Tasks |-> NoDetails]
    /\ qparams = [t \in Tasks |-> NoParams]
    /\ IMG_BUFFER = ZeroBuffer
    /\ resp = NoResponse
    /\ trace = NoTrace
    /\ req = NoRequest
    /\ failed = 0
    /\ startup = NotStarted
    /\ arg = NoArg
    /\ ret = NoRet
    /\ tasks = [s \in Slots |-> Idle]
    /\ loop = {}

\* The globals and the phase startup_event leaves.
Started(r) ==
    /\ interpreter' = [t \in Tasks |-> r.globals[t].interpreter]
    /\ input_details' = [t \in Tasks |-> r.globals[t].input_details]
    /\ output_details' = [t \in Tasks |-> r.globals[t].output_details]
    /\ qparams' = [t \in Tasks |-> r.globals[t].qparams]
    /\ startup' = r.startup
    /\ phase' = StartupPhase(r.startup.exc)

Startup ==
    /\ phase = "boot"
    /\ \E dr_run \in DummyRunsOf(LoadTask(disk["dr"])),
          gl_run \in DummyRunsOf(LoadTask(disk["glaucoma"])) :
          Started(startup_event(disk, dr_run, gl_run))
    /\ UNCHANGED <<disk, IMG_BUFFER, resp, trace, req, failed, arg, ret, tasks, loop>>

\* What a handled request leaves behind.
Handled(r) ==
    /\ resp' = r.response
    /\ trace' = r.trace
    /\ IMG_BUFFER' = r.buf
    /\ failed' = IF r.response.status = 200 \/ failed = MaxFailed THEN failed ELSE failed + 1

Diagnose ==
    /\ phase = "ready"
    /\ \E file \in Files, img_url \in Urls, request_id \in RequestIds :
       \E fetch \in FetchesFor(file, img_url) :
       \E dr_run \in DrRunsFor(file, img_url, fetch) :
       \E gl_run \in GlaucomaRunsFor(file, img_url, fetch, dr_run) :
          /\ req' = [endpoint |-> "diagnose", file |-> file, img_url |-> img_url,
                     request_id |-> request_id]
          /\ Handled(diagnose(file, img_url, request_id, fetch, dr_run, gl_run))
    /\ UNCHANGED <<phase, disk, interpreter, input_details, output_details, qparams,
                   startup, arg, ret, tasks, loop>>

HealthCheck ==
    /\ phase = "ready"
    /\ req' = [endpoint |-> "health"]
    /\ resp' = health_check
    /\ trace' = NoTrace
    /\ UNCHANGED <<phase, disk, interpreter, input_details, output_details, qparams,
                   IMG_BUFFER, failed, startup, arg, ret, tasks, loop>>

Next == Startup \/ Diagnose \/ HealthCheck

Spec == Init /\ [][Next]_vars

(***************************************************************************)
(* The pure functions, applied to inputs drawn from bounded sets.          *)
(***************************************************************************)
PureInit ==
    /\ phase = "pure"
    /\ disk = [t \in Tasks |-> [int8 |-> Missing, regular |-> Missing]]
    /\ interpreter = [t \in Tasks |-> NoInterpreter]
    /\ input_details = [t \in Tasks |-> NoDetails]
    /\ output_details = [t \in Tasks |-> NoDetails]
    /\ qparams = [t \in Tasks |-> NoParams]
    /\ IMG_BUFFER = ZeroBuffer
    /\ resp = NoResponse
    /\ trace = NoTrace
    /\ req = NoRequest
    /\ failed = 0
    /\ startup = NotStarted
    /\ arg \in CodecArgs \cup ImageArgs
    /\ ret = NoRet
    /\ tasks = [s \in Slots |-> Idle]
    /\ loop = {}

ServerIdle ==
    UNCHANGED <<phase, disk, interpreter, input_details, output_details, qparams,
                resp, trace, req, failed, startup, arg, tasks, loop>>

ApplyQuantize ==
    /\ arg.kind = "codec"
    /\ ret' = [op |-> "quantize",
               out |-> quantize_input(arg.tensor, arg.scale, arg.zero_point)]
    /\ UNCHANGED IMG_BUFFER
    /\ ServerIdle

ApplyDequantize ==
    /\ arg.kind = "codec"
    /\ ret' = [op |-> "dequantize",
               out |-> dequantize_output(arg.tensor, arg.scale, arg.zero_point)]
    /\ UNCHANGED IMG_BUFFER
    /\ ServerIdle

ApplyRoundTrip ==
    /\ arg.kind = "codec"
    /\ ret' = [op |-> "roundtrip",
               out |-> dequantize_output(
                          quantize_input(arg.tensor, arg.scale, arg.zero_point),
                          arg.scale, arg.zero_point)]
    /\ UNCHANGED IMG_BUFFER
    /\ ServerIdle

Preprocessed(r) ==
    /\ ret' = [op |-> "preprocess", ok |-> r.ok, out |-> r.val, exc |-> r.exc]
    /\ IMG_BUFFER' = r.buf

ApplyPreprocess ==
    /\ arg.kind = "image"
    /\ Preprocessed(preprocess_image_quantized(arg.image, TARGET_SIZE))
    /\ ServerIdle

PureNext == ApplyQuantize \/ ApplyDequantize \/ ApplyRoundTrip \/ ApplyPreprocess

PureSpec == PureInit /\ [][PureNext]_vars

(***************************************************************************)
(* Concurrent requests.  uvicorn runs every diagnose coroutine on one      *)
(* event loop: a coroutine runs until it suspends at an await or returns.  *)
(* A request is accepted (its form parsed by the framework) at any time;   *)
(* its handler then runs statement by statement while it holds the loop.   *)
(* The requests here carry a file and no img_url, so they pass the input   *)
(* validation.                                                             *)
(***************************************************************************)
ConcFiles ==
    {Upload(TRUE, 4096, c) :
        c \in {Undecodable, Decodable(GoodImage), Decodable(GrayImage),
               Decodable([mode |-> "RGB", size |-> <<300, 49>>, px |-> <<1, 2, 3>>])}}

\* The statements after which diagnose suspends and the event loop may run
\* another coroutine.  Its only await is on load_image_from_source, whose
\* body holds no await; preprocess_image_quantized and
\* predict_with_tflite_quantized are plain calls.  pc names the statement
\* just executed.
Suspends_in_preprocess(pc) == pc = "copyto"

Suspends(pc) == pc \in {}

Service ==
    UNCHANGED <<phase, disk, interpreter, input_details, output_details, qparams,
                resp, trace, req, failed, startup, arg, ret>>

Accept(s) ==
    /\ phase = "ready"
    /\ tasks[s].pc \in {"idle", "done"}
    /\ \E file \in ConcFiles :
          tasks' = [tasks EXCEPT ![s] = [Idle EXCEPT !.pc = "accepted", !.file = file]]
    /\ UNCHANGED <<IMG_BUFFER, loop>>
    /\ Service

\* The event loop is free, or already runs the coroutine of slot s.
Holds(s) == loop \subseteq {s}

\* The coroutine of slot s went on to statement pc.
Goes(s, pc, stages, locals) ==
    /\ tasks' = [tasks EXCEPT ![s].pc = pc, ![s].stages = stages, ![s].locals = locals]
    /\ loop' = IF Suspends(pc) THEN {} ELSE {s}

\* The coroutine of slot s returned: r is the outcome of the try block.
Returns(s, r) ==
    /\ tasks' = [tasks EXCEPT ![s].pc = "done",
                              ![s].stages = r.stages,
                              ![s].locals = r.locals,
                              ![s].resp = Boundary(r, "1b9d6bcd").response]
    /\ loop' = {}

\* np.copyto(IMG_BUFFER[0], img_data)
np_copyto(s, stages, img_data) ==
    IF img_data.shape # <<IMG_BUFFER.shape[2], IMG_BUFFER.shape[3], IMG_BUFFER.shape[4]>>
    THEN /\ Returns(s, Failed(Exc("ValueError", "could not broadcast input array"),
                              stages, NoLocals, IMG_BUFFER))
         /\ UNCHANGED IMG_BUFFER
    ELSE /\ IMG_BUFFER' = [IMG_BUFFER EXCEPT !.data = img_data.data]
         /\ Goes(s, "copyto", stages, NoLocals)

\* preprocess_image_quantized up to and including np.copyto.
FillBuffer(s, stages, image) ==
    IF ~validate_image(image)
    THEN /\ Returns(s, Failed(Exc("ValueError", "Invalid image format or size"),
                              stages, NoLocals, IMG_BUFFER))
         /\ UNCHANGED IMG_BUFFER
    ELSE np_copyto(s, stages,
                   ToArray(Resize(IF image.mode # "RGB" THEN ConvertRGB(image) ELSE image,
                                  TARGET_SIZE)))

Loaded(s, acq) ==
    IF ~acq.ok
    THEN /\ Returns(s, Failed(acq.exc, acq.stages, NoLocals, IMG_BUFFER))
         /\ UNCHANGED IMG_BUFFER
    ELSE FillBuffer(s, Append(acq.stages, "preprocess"), acq.val)

\* diagnose from its first statement to np.copyto in preprocess_image_quantized.
BeginPreprocess(s) ==
    /\ phase = "ready"
    /\ tasks[s].pc = "accepted"
    /\ Holds(s)
    /\ Loaded(s, load_image_from_source(tasks[s].file, None, FetchFailed))
    /\ Service

\* return IMG_BUFFER.copy(); img_array = ...
CopyOut(s) ==
    /\ phase = "ready"
    /\ tasks[s].pc = "copyto"
    /\ Holds(s)
    /\ Goes(s, "preprocessed", tasks[s].stages,
            [tasks[s].locals EXCEPT !.img_array = IMG_BUFFER])
    /\ UNCHANGED IMG_BUFFER
    /\ Service

PredictedDR(s, stages, locals, dr) ==
    IF ~dr.ok
    THEN Returns(s, Failed(dr.exc, stages, [locals EXCEPT !.fed["dr"] = dr.fed], IMG_BUFFER))
    ELSE Goes(s, "dr_done", stages,
              [locals EXCEPT !.fed["dr"] = dr.val.fed,
                             !.raw["dr"] = dr.val.raw,
                             !.dr_preds = dr.val.predictions,
                             !.dr_probs = dr.val.predictions.data])

\* The DR prediction and dr_probs.
InvokeDR(s) ==
    /\ phase = "ready"
    /\ tasks[s].pc = "preprocessed"
    /\ Holds(s)
    /\ \E run \in RunsOf(Globals("dr")) :
          PredictedDR(s, Append(tasks[s].stages, "invoke_dr"), tasks[s].locals,
                      PredictWith(Globals("dr"), tasks[s].locals.img_array, run))
    /\ UNCHANGED IMG_BUFFER
    /\ Service

\* The Glaucoma prediction, the response and the return.
InvokeGlaucoma(s) ==
    /\ phase = "ready"
    /\ tasks[s].pc = "dr_done"
    /\ Holds(s)
    /\ \E run \in RunsOf(Globals("glaucoma")) :
          Returns(s, AfterGlaucoma(tasks[s].file, "1b9d6bcd",
                                   Append(tasks[s].stages, "invoke_glaucoma"),
                                   tasks[s].locals, IMG_BUFFER,
                                   PredictWith(Globals("glaucoma"),
                                               tasks[s].locals.img_array, run)))
    /\ UNCHANGED IMG_BUFFER
    /\ Service

ConcNext ==
    \/ Startup
    \/ \E s \in Slots : Accept(s)
    \/ \E s \in Slots : BeginPreprocess(s)
    \/ \E s \in Slots : CopyOut(s)
    \/ \E s \in Slots : InvokeDR(s)
    \/ \E s \in Slots : InvokeGlaucoma(s)

ConcSpec == Init /\ [][ConcNext]_vars

(***************************************************************************)
(* Properties.                                                             *)
(***************************************************************************)
IsDiagnose == req.endpoint = "diagnose"

\* C1: a diagnose request with both a file and an img_url, or with neither,
\* is answered 400, and nothing is acquired, preprocessed or invoked for it.
C1_ExactlyOneSource ==
    (IsDiagnose /\ (req.file.present <=> Truthy(req.img_url)))
        => /\ resp.status = 400
           /\ DOMAIN resp.body = {"error"}
           /\ trace.stages = <<>>
           /\ trace.locals = NoLocals

C1_Witness ==
    /\ IsDiagnose
    /\ req.file.present
    /\ Truthy(req.img_url)
    /\ resp.status = 400
    /\ trace.stages = <<>>

OversizedUpload ==
    /\ IsDiagnose
    /\ req.file.present
    /\ ~Truthy(req.img_url)
    /\ req.file.has_size
    /\ req.file.size > 10 * MiB

\* C2: an upload whose declared size exceeds 10 MiB is rejected with a
\* 400-class response, before any decode of the image is attempted.
C2_OversizedUploadIs400 ==
    OversizedUpload
        => /\ resp.status \in 400..499
           /\ "decode" \notin Range(trace.stages)

\* C3: a failure raised while a diagnose request is handled becomes a 500
\* JSON body holding error and request_id; the service stays up and goes on
\* handling requests.
C3_FailuresAreAnswered ==
    (IsDiagnose /\ trace.raised # NoExc)
        => /\ resp.status = 500
           /\ DOMAIN resp.body = {"error", "request_id"}
           /\ resp.body.error = trace.raised.msg
           /\ resp.body.request_id = req.request_id
           /\ phase = "ready"
           /\ ENABLED Diagnose

C3_Witness ==
    /\ IsDiagnose
    /\ failed = MaxFailed
    /\ trace.raised.type = "RuntimeError"
    /\ "invoke_glaucoma" \in Range(trace.stages)
    /\ resp.status = 500
    /\ resp.body.request_id = req.request_id

NoneLoads(t) == disk[t].int8.kind = "missing" /\ disk[t].regular.kind = "missing"

\* C4: startup is fail-fast: when both files of a task fail to load, or a
\* warmup invocation fails, startup aborts; the service is never ready with
\* fewer than two loaded, warmed-up models, and serves nothing when aborted.
C4_FailFast ==
    /\ phase \in {"boot", "ready", "aborted"}
    /\ phase = "ready"
        => /\ \A t \in Tasks : /\ interpreter[t].kind = "model"
                               /\ interpreter[t].alloc_ok
                               /\ input_details[t] # NoDetails
                               /\ output_details[t] # NoDetails
           /\ startup.warmed = Tasks
           /\ startup.exc = NoExc
    /\ (phase # "boot" /\ \E t \in Tasks : NoneLoads(t)) => phase = "aborted"
    /\ (phase # "boot" /\ startup.exc # NoExc) => phase = "aborted"
    /\ phase = "aborted" => resp = NoResponse

C4_Witness ==
    /\ phase = "aborted"
    /\ startup.at = "warmup_glaucoma"
    /\ startup.warmed = {"dr"}
    /\ \A t \in Tasks : interpreter[t].kind = "model"

\* The plain file is there and is a sound model file.
FallbackPresent(t) == disk[t].regular.kind = "model" /\ disk[t].regular.alloc_ok

\* Startup did not stop for a reason foreign to loading task t.
LoadAttempted(t) ==
    /\ phase # "boot"
    /\ startup.at \in {"none", IF t = "dr" THEN "load_dr" ELSE "load_glaucoma"}

\* C5: per task, the int8 file is used when it loads; when it fails to load
\* and the plain file is present, the model loads from the plain file,
\* startup continues, and /health reports int8_quantization false for the
\* task and models_loaded true.
C5_FallbackLoading ==
    \A t \in Tasks :
        LoadAttempted(t)
            => /\ disk[t].int8.kind = "model" => interpreter[t] = disk[t].int8
               /\ (disk[t].int8.kind = "missing" /\ FallbackPresent(t))
                    => /\ startup.at = "none"
                       /\ phase = "ready"
                       /\ interpreter[t] = disk[t].regular
                       /\ resp.endpoint = "health"
                            => /\ resp.body.models_loaded
                               /\ ~resp.body.optimizations.int8_quantization[t]

IsCodec(op) == arg.kind = "codec" /\ ret.op = op

\* C6: with scale = 1.0 and zero_point = 0, quantize_input and
\* dequantize_output return their input unchanged in value and element type.
C6_IdentityCodec ==
    ((IsCodec("quantize") \/ IsCodec("dequantize")) /\ arg.scale = One /\ arg.zero_point = 0)
        => /\ ret.out.dtype = arg.tensor.dtype
           /\ ret.out.data = arg.tensor.data
           /\ ret.out = arg.tensor

C6_Witness ==
    /\ IsCodec("quantize")
    /\ arg.scale = One
    /\ arg.zero_point = 0
    /\ arg.tensor.dtype = "float32"
    /\ arg.tensor.data[1] = Rat(3, 2)
    /\ ret.out = arg.tensor

\* The integers nearest to the rational q (two of them at a tie).
NearestInts(q) ==
    {k \in {q[1] \div q[2], (q[1] \div q[2]) + 1} : 2 * Abs(k * q[2] - q[1]) <= q[2]}

Clamped(v) == IF v > 127 THEN 127 ELSE IF v < -128 THEN -128 ELSE v

\* C7: for a non-identity (scale, zero_point), quantize_input yields
\* round(f / scale) + zero_point clamped to [-128, 127]: every result is an
\* int8 in that range, and a value beyond it maps to exactly 127 or -128.
C7_QuantizeClamps ==
    (IsCodec("quantize") /\ ~(arg.scale = One /\ arg.zero_point = 0))
        => /\ ret.out.dtype = "int8"
           /\ Len(ret.out.data) = Len(arg.tensor.data)
           /\ \A i \in 1..Len(arg.tensor.data) :
                /\ ret.out.data[i][2] = 1
                /\ ret.out.data[i][1] \in -128..127
                /\ \E k \in NearestInts(RDiv(arg.tensor.data[i], arg.scale)) :
                      ret.out.data[i][1] = Clamped(k + arg.zero_point)
                /\ \A k \in NearestInts(RDiv(arg.tensor.data[i], arg.scale)) :
                      /\ k + arg.zero_point > 127 => ret.out.data[i][1] = 127
                      /\ k + arg.zero_point < -128 => ret.out.data[i][1] = -128

C7_Witness ==
    /\ IsCodec("quantize")
    /\ arg.scale = Rat(1, 255)
    /\ arg.zero_point = 3
    /\ arg.tensor.data[1] = RInt(2)
    /\ ret.out.dtype = "int8"
    /\ ret.out.data[1] = RInt(127)

\* x lies in the representable range [s*(-128-z), s*(127-z)].
Representable(x, s, z) ==
    /\ RLe(RMul(s, RInt(-128 - z)), x)
    /\ RLe(x, RMul(s, RInt(127 - z)))

\* C8: for s > 0 and x in the representable range,
\* dequantize_output(quantize_input(x, s, z), s, z) is within s/2 of x.
C8_RoundTripBound ==
    (IsCodec("roundtrip") /\ RLt(Zero, arg.scale))
        => \A i \in 1..Len(arg.tensor.data) :
              Representable(arg.tensor.data[i], arg.scale, arg.zero_point)
                => RLe(RMul(RInt(2), RAbs(RSub(ret.out.data[i], arg.tensor.data[i]))),
                       arg.scale)

C8_Witness ==
    /\ IsCodec("roundtrip")
    /\ arg.scale = Rat(3, 4)
    /\ arg.zero_point = -1
    /\ arg.tensor.data[1] = Rat(-4, 3)
    /\ Representable(arg.tensor.data[1], arg.scale, arg.zero_point)
    /\ ret.out.data[1] # arg.tensor.data[1]
    /\ ret.out.dtype = "float32"

\* The probability vector the specification prescribes for an output vector.
Synthesized(data) == IF Len(data) = 1 THEN <<RSub(One, data[1]), data[1]>> ELSE data

\* C9 as stated: for each of the two models, a one-element output p gives
\* the probability vector [1-p, p], any other output is used directly.
C9_BothModelsSynthesize ==
    IsDiagnose
        => /\ trace.locals.dr_preds # NoTensor
                => trace.locals.dr_probs = Synthesized(trace.locals.dr_preds.data)
           /\ trace.locals.glaucoma_preds # NoTensor
                => trace.locals.glaucoma_probs = Synthesized(trace.locals.glaucoma_preds.data)

\* C9 as amended: the Glaucoma model's one-element output p gives [1-p, p]
\* (p = 0.8: [0.2, 0.8], predicted index 1) and any other Glaucoma output is
\* used directly; the DR model's output is always used directly.
C9_GlaucomaSynthesizes ==
    IsDiagnose
        => /\ trace.locals.dr_preds # NoTensor
                => trace.locals.dr_probs = trace.locals.dr_preds.data
           /\ trace.locals.glaucoma_preds # NoTensor
                => trace.locals.glaucoma_probs = Synthesized(trace.locals.glaucoma_preds.data)
           /\ (resp.status = 200 /\ trace.locals.glaucoma_preds.data = <<Rat(4, 5)>>)
                => /\ resp.body.glaucoma.probabilities = <<Rat(1, 5), Rat(4, 5)>>
                   /\ resp.body.glaucoma.severity_level = 1
                   /\ resp.body.glaucoma.prediction = "Glaucoma"

C9_Witness ==
    /\ IsDiagnose
    /\ resp.status = 200
    /\ trace.locals.glaucoma_preds.data = <<Rat(4, 5)>>
    /\ trace.locals.glaucoma_probs = <<Rat(1, 5), Rat(4, 5)>>
    /\ resp.body.glaucoma.severity_level = 1

Supported(image) ==
    /\ image.mode \in {"RGB", "RGBA", "L"}
    /\ image.size[1] >= 50
    /\ image.size[2] >= 50

\* C10: an RGB, RGBA or grayscale image at least 50 wide and 50 high is
\* preprocessed to a tensor of shape [1, 224, 224, 3] with values in [0, 1];
\* every other image is rejected with a validation error and gives no tensor.
C10_ShapeInvariance ==
    (arg.kind = "image" /\ ret.op = "preprocess")
        => IF Supported(arg.image)
           THEN /\ ret.ok
                /\ ret.out.shape = <<1, 224, 224, 3>>
                /\ ret.out.dtype = "float32"
                /\ Len(ret.out.data) = 3
                /\ \A i \in 1..Len(ret.out.data) :
                      RLe(Zero, ret.out.data[i]) /\ RLe(ret.out.data[i], One)
           ELSE /\ ~ret.ok
                /\ ret.exc = Exc("ValueError", "Invalid image format or size")
                /\ ret.out = None
                /\ IMG_BUFFER = ZeroBuffer

C10_Witness ==
    /\ arg.kind = "image"
    /\ ret.op = "preprocess"
    /\ arg.image.mode = "L"
    /\ arg.image.size = <<300, 50>>
    /\ arg.image.px = <<127>>
    /\ ret.ok
    /\ ret.out.shape = <<1, 224, 224, 3>>
    /\ ret.out.data = <<Rat(127, 255), Rat(127, 255), Rat(127, 255)>>

\* The tensor preprocessing makes of an image, computed without the buffer.
OwnTensor(image) ==
    [dtype |-> "float32", shape |-> <<1, 224, 224, 3>>,
     data |-> [i \in 1..3 |-> Rat(ConvertRGB(image).px[i], 255)]]

\* The tensor model t is fed for the preprocessed tensor x.
FedFor(t, x) ==
    IF input_details[t].dtype = "int8"
    THEN quantize_input(x, qparams[t].input_scale, qparams[t].input_zero_point)
    ELSE x

OwnImage(s) == tasks[s].file.content.image

\* C11: under every interleaving of concurrent diagnose requests, the tensor
\* a request holds after preprocessing, and the tensor it feeds to each
\* model, are made of that request's own image, although every request
\* writes through IMG_BUFFER.
C11_RequestIsolation ==
    \A s \in Slots :
        /\ tasks[s].locals.img_array # NoTensor
              => tasks[s].locals.img_array = OwnTensor(OwnImage(s))
        /\ \A t \in Tasks :
              tasks[s].locals.fed[t] # NoTensor
                  => tasks[s].locals.fed[t] = FedFor(t, OwnTensor(OwnImage(s)))
        /\ tasks[s].pc = "copyto" => IMG_BUFFER.data = OwnTensor(OwnImage(s)).data

C11_Witness ==
    /\ tasks[1].pc = "done"
    /\ tasks[1].resp.status = 200
    /\ OwnImage(1) = GoodImage
    /\ tasks[1].locals.fed["dr"].data = <<Rat(127, 1), Rat(0, 1), Rat(-128, 1)>>
    /\ tasks[2].pc = "dr_done"
    /\ OwnImage(2) = GrayImage
    /\ IMG_BUFFER.data = OwnTensor(GrayImage).data
    /\ tasks[2].locals.fed["dr"] = FedFor("dr", OwnTensor(GrayImage))

LastStage == trace.stages[Len(trace.stages)]

\* The request ended in a failed interpreter.invoke() of the model of task t.
InvokeFailed(t) ==
    /\ IsDiagnose
    /\ trace.raised.type = "RuntimeError"
    /\ trace.stages # <<>>
    /\ LastStage = (IF t = "dr" THEN "invoke_dr" ELSE "invoke_glaucoma")

\* The error texts a failed invocation of the model of task t can be answered with.
InvokeFailureErrors(t) ==
    {ErrorResponse(PredictWith(Globals(t), Dummy, FailedRun).exc, rid).body.error :
        rid \in RequestIds}

\* C12: when the invocation of a model fails during a diagnose request, the
\* error message returned tells which model failed: the message of a DR
\* failure is none a Glaucoma failure is answered with, and vice versa.
C12_ErrorNamesTask ==
    \A t \in Tasks :
        InvokeFailed(t)
            => /\ resp.status = 500
               /\ \A u \in Tasks \ {t} : resp.body.error \notin InvokeFailureErrors(u)

\* The scale and zero point a tensor of a model file carries (1.0 and 0 when
\* its details list none).
OwnScale(qp) == IF qp.present THEN qp.scales[1] ELSE One
OwnZeroPoint(qp) == IF qp.present THEN qp.zero_points[1] ELSE 0

\* Model m was driven with its own parameters: img went in, fed was handed to
\* it, raw came out of it and predictions was made of raw.
DrivenOwn(m, img, fed, raw, predictions) ==
    /\ fed = IF m.in_dtype = "int8"
             THEN quantize_input(img, OwnScale(m.in_qp), OwnZeroPoint(m.in_qp))
             ELSE [img EXCEPT !.dtype = "float32"]
    /\ raw # NoTensor
          => predictions = IF m.out_dtype = "int8"
                           THEN dequantize_output(raw, OwnScale(m.out_qp), OwnZeroPoint(m.out_qp))
                           ELSE raw

RequestPredictions(t) ==
    IF t = "dr" THEN trace.locals.dr_preds ELSE trace.locals.glaucoma_preds

\* C13: in every request and in warmup each model is driven with its own
\* parameters: its input goes through Quantize with the model's input pair
\* exactly when its input type is int8 (as float otherwise), its output
\* through Dequantize with the model's output pair exactly when its output
\* type is int8; no pair of the other model or the other direction is used.
C13_OwnParameters ==
    \A t \in Tasks :
        /\ startup.runs[t].fed # NoTensor
              => DrivenOwn(interpreter[t], Dummy, startup.runs[t].fed,
                           startup.runs[t].raw, startup.runs[t].predictions)
        /\ (IsDiagnose /\ trace.locals.fed[t] # NoTensor)
              => DrivenOwn(interpreter[t], trace.locals.img_array, trace.locals.fed[t],
                           trace.locals.raw[t], RequestPredictions(t))

C13_Witness ==
    /\ IsDiagnose
    /\ resp.status = 200
    /\ interpreter["dr"].in_dtype = "float32"
    /\ interpreter["glaucoma"].in_dtype = "int8"
    /\ trace.locals.img_array.data = <<Rat(1, 1), Rat(128, 255), Rat(0, 1)>>
    /\ trace.locals.fed["dr"].data = trace.locals.img_array.data
    /\ trace.locals.fed["glaucoma"].data = <<Rat(64, 1), Rat(0, 1), Rat(-64, 1)>>
    /\ trace.locals.raw["glaucoma"].data = <<Rat(77, 1)>>
    /\ trace.locals.glaucoma_preds.data = <<Rat(41, 51)>>
    /\ startup.runs["glaucoma"].fed.data = <<Rat(-64, 1), Rat(-64, 1), Rat(-64, 1)>>

\* C14: the tensor handed to a model always has the model's input element
\* type, in warmup and in every request, for every parameter pair read at
\* load time: int8 for an int8-input model, float32 for a float-input model.
C14_FedHasInputType ==
    \A t \in Tasks :
        /\ startup.runs[t].fed # NoTensor
              => startup.runs[t].fed.dtype = interpreter[t].in_dtype
        /\ (IsDiagnose /\ trace.locals.fed[t] # NoTensor)
              => trace.locals.fed[t].dtype = interpreter[t].in_dtype
=============================================================================
